---- MODULE Spec2Model ----
(***************************************************************************)
(* godoc/parser.go: the "//line " scrubbing pass, the +build tag scan and  *)
(* the identifier-to-build-tag mapper, as a state machine.                 *)
(*                                                                         *)
(* Spec       runs mapIdentifierToBuildTag once on one package.            *)
(* SpecTwice  runs it a second time with the same arguments.               *)
(* SanSpec    runs replaceLinePrefixCommentsWithBlankLine on one buffer.   *)
(*                                                                         *)
(* Go strings are TLA+ strings (built with \o, as the code concatenates).  *)
(* A comment's text is the sequence of its words and the blanks between   *)
(* them.  A path is the pair <<dir, name>>.  A Go map read with range is   *)
(* iterated in every order.                                                *)
(***************************************************************************)
EXTENDS Integers, Sequences, FiniteSets, TLC

VARIABLES
    files,          \* parameter files: path -> *ast.File
    allowed,        \* ctxt.BuildTags
    bad,            \* names whose read or parse fails in c.fs
    pc,             \* position in mapIdentifierToBuildTag
    tagToFiles,     \* local tagToFiles: tag -> list of file names
    pending,        \* keys of tagToFiles the range loop has not visited yet
    typesWithTags,  \* local typesWithTags: key -> tag list string
    ret,            \* the returned (map, error) of the current call
    first,          \* the returned (map, error) of the first of two calls
    src0,           \* the buffer handed to the scrubbing pass
    buf,            \* the bytes of that buffer now
    off,            \* where the slice src starts in the buffer
    spc             \* position in replaceLinePrefixCommentsWithBlankLine

mvars == <<files, allowed, bad, pc, tagToFiles, pending, typesWithTags, ret, first>>
svars == <<src0, buf, off, spc>>
vars == <<files, allowed, bad, pc, tagToFiles, pending, typesWithTags, ret, first,
          src0, buf, off, spc>>

(***************************************************************************)
(* Bounds and input alphabets                                              *)
(***************************************************************************)
MaxLines == 2       \* comment lines in the whole package
MaxChunks == 4      \* pieces a scrubbed buffer is assembled from

Tags == {"xtag1", "xtag2"}
FileNames == {"a.go", "b.go"}
relpath == ""
abspath == "/src"

\* sequences over S of length lo..hi
SeqsOf(S, lo, hi) == UNION {[1..n -> S] : n \in lo..hi}

\* every order of the elements of S
PermSeqs(S) ==
    {s \in [1..Cardinality(S) -> S] : \A i, j \in 1..Cardinality(S) : s[i] = s[j] => i = j}

RECURSIVE Flatten(_)
Flatten(ss) == IF ss = <<>> THEN <<>> ELSE Head(ss) \o Flatten(Tail(ss))

Range(s) == {s[i] : i \in DOMAIN s}

Count(s, x) == Cardinality({i \in DOMAIN s : s[i] = x})

NoDup(s) == \A i, j \in DOMAIN s : s[i] = s[j] => i = j

(***************************************************************************)
(* Paths                                                                   *)
(***************************************************************************)
Join(dir, name) == <<dir, name>>

Base(path) == path[2]

(***************************************************************************)
(* Syntax trees                                                            *)
(***************************************************************************)
NoRecv == [kind |-> "nil", name |-> ""]
Ident(n) == [kind |-> "ident", name |-> n]
Star(n) == [kind |-> "star", name |-> n]

FuncDecl(recv, name) == [kind |-> "func", Recv |-> recv, Name |-> name, Specs |-> <<>>]
GenDecl(specs) == [kind |-> "gen", Recv |-> NoRecv, Name |-> "", Specs |-> specs]
TypeSpec(name) == [kind |-> "type", Names |-> <<name>>]
ValueSpec(names) == [kind |-> "value", Names |-> names]
ImportSpec == [kind |-> "import", Names |-> <<>>]

\* the text of a comment line "// +build t1 t2 ...", words and the blanks between them
RECURSIVE Spaced(_)
Spaced(words) ==
    IF Len(words) <= 1 THEN words ELSE <<Head(words), " ">> \o Spaced(Tail(words))

BuildLine(toks) == Spaced(<<"//", "+build">> \o toks)

\* a comment that names a tag and is no directive
PlainLine == Spaced(<<"//", "needs", "xtag1">>)

LineChoices ==
    {BuildLine(<<t>>) : t \in Tags}
    \cup {BuildLine(<<t, u>>) : <<t, u>> \in Tags \X Tags}
    \cup {PlainLine}

DeclChoices ==
    { <<FuncDecl(NoRecv, "First"), GenDecl(<<TypeSpec("A")>>),
        FuncDecl(Ident("A"), "String")>>,
      <<GenDecl(<<ImportSpec>>), FuncDecl(NoRecv, "String"),
        GenDecl(<<ValueSpec(<<"TestConst", "First">>)>>)>>,
      <<FuncDecl(NoRecv, "init"), FuncDecl(NoRecv, "init"),
        FuncDecl(Star("A"), "String")>> }

AllowedChoices == {<<"xtag1", "xtag2">>, <<"xtag1">>, <<"xtag1", "xtag1">>}

\* the files c.fs fails to read or parse
BadChoices == {{}, {"b.go"}}

RECURSIVE TotalLines(_, _)
TotalLines(c, S) ==
    IF S = {} THEN 0
    ELSE LET f == CHOOSE x \in S : TRUE IN Len(c[f]) + TotalLines(c, S \ {f})

\* the comments of the package's files: at most MaxLines lines in all
CommentChoices ==
    {c \in [FileNames -> SeqsOf(LineChoices, 0, MaxLines)] :
        TotalLines(c, FileNames) <= MaxLines}

(***************************************************************************)
(* Go maps                                                                 *)
(***************************************************************************)
EmptyMap == [x \in {} |-> ""]

MapGet(m, k, zero) == IF k \in DOMAIN m THEN m[k] ELSE zero

MapPut(m, k, v) == [x \in DOMAIN m \cup {k} |-> IF x = k THEN v ELSE m[x]]

(***************************************************************************)
(* findBuildTags                                                           *)
(***************************************************************************)
\* strings.Contains(l.Text, sub): every word of a modelled line is a whole field
Contains(text, sub) == \E i \in DOMAIN text : text[i] = sub

\* buildutil.TagsFlag.Set: the whitespace-separated fields of the text
TagsFlagSet(text) == SelectSeq(text, LAMBDA w : w # " ")

\* matchAllowed without the comparison against the allowed tags
matchAllowedAny(t, allowedBuildTags) == <<t>>

\* the inner loop over allowedBuildTags: t is appended once per equal entry
matchAllowed(t, allowedBuildTags) == SelectSeq(allowedBuildTags, LAMBDA abt : t = abt)

lineTags(l, allowedBuildTags) ==
    IF ~Contains(l, "+build") THEN <<>>
    ELSE LET tf == TagsFlagSet(l)
         IN Flatten([i \in DOMAIN tf |-> matchAllowed(tf[i], allowedBuildTags)])

findBuildTags(file, allowedBuildTags) ==
    LET tags == Flatten([i \in DOMAIN file.Comments |->
                            lineTags(file.Comments[i], allowedBuildTags)])
    IN [tags |-> tags, ok |-> Len(tags) > 0]

(***************************************************************************)
(* mapIdentifierToBuildTag: the classify loop                              *)
(***************************************************************************)
RECURSIVE addFile(_, _, _)
addFile(t2f, fName, bts) ==
    IF bts = <<>> THEN t2f
    ELSE LET bt == Head(bts)
             f == MapGet(t2f, bt, <<>>)
         IN addFile(MapPut(t2f, bt, Append(f, Base(fName))), fName, Tail(bts))

\* range files, visited in the given order
RECURSIVE groupFiles(_, _, _, _)
groupFiles(t2f, order, fs, allowedBuildTags) ==
    IF order = <<>> THEN t2f
    ELSE LET fName == Head(order)
             r == findBuildTags(fs[fName], allowedBuildTags)
         IN groupFiles(IF r.ok THEN addFile(t2f, fName, r.tags) ELSE t2f,
                       Tail(order), fs, allowedBuildTags)

(***************************************************************************)
(* mapIdentifierToBuildTag: the declaration walk                           *)
(***************************************************************************)
\* appendName that leaves the receiver type out of the key
appendNameNoRecv(types, typeName, receiverType, tagName) ==
    LET tns == MapGet(types, typeName, "")
    IN MapPut(types, typeName, IF tns = "" THEN tagName ELSE tns \o ", " \o tagName)

appendName(types, typeName, receiverType, tagName) ==
    LET key == IF receiverType # "" THEN receiverType \o "." \o typeName ELSE typeName
        tns == MapGet(types, key, "")
    IN MapPut(types, key, IF tns = "" THEN tagName ELSE tns \o ", " \o tagName)

\* format.Node on a receiver type expression
FormatNode(expr) ==
    CASE expr.kind = "ident" -> [err |-> FALSE, text |-> expr.name]
      [] expr.kind = "star" -> [err |-> FALSE, text |-> "*" \o expr.name]
      [] OTHER -> [err |-> TRUE, text |-> ""]

getReceiverType(decl) ==
    IF decl.Recv = NoRecv THEN ""
    ELSE LET r == FormatNode(decl.Recv) IN IF r.err THEN "" ELSE r.text

RECURSIVE walkNames(_, _, _)
walkNames(types, names, tagName) ==
    IF names = <<>> THEN types
    ELSE walkNames(appendName(types, Head(names), "", tagName), Tail(names), tagName)

RECURSIVE walkSpecs(_, _, _)
walkSpecs(types, specs, tagName) ==
    IF specs = <<>> THEN types
    ELSE LET spec == Head(specs)
             t == CASE spec.kind = "type" -> appendName(types, spec.Names[1], "", tagName)
                    [] spec.kind = "value" -> walkNames(types, spec.Names, tagName)
                    [] OTHER -> types
         IN walkSpecs(t, Tail(specs), tagName)

RECURSIVE walkDecls(_, _, _)
walkDecls(types, decls, tagName) ==
    IF decls = <<>> THEN types
    ELSE LET decl == Head(decls)
             t == CASE decl.kind = "func" ->
                         appendName(types, decl.Name, getReceiverType(decl), tagName)
                    [] decl.kind = "gen" -> walkSpecs(types, decl.Specs, tagName)
                    [] OTHER -> types
         IN walkDecls(t, Tail(decls), tagName)

\* range astMap, visited in the given order of its entries
RECURSIVE walkFiles(_, _, _, _)
walkFiles(types, astMap, order, tagName) ==
    IF order = <<>> THEN types
    ELSE walkFiles(walkDecls(types, astMap[Head(order)].file.Decls, tagName),
                   astMap, Tail(order), tagName)

(***************************************************************************)
(* parseFile, parseFiles                                                   *)
(***************************************************************************)
NoErr == [failed |-> FALSE, path |-> <<>>, in |-> "", with |-> <<>>]

NoFile == [Comments |-> <<>>, Decls |-> <<>>]

\* vfs.ReadFile, the scrubbing pass and parser.ParseFile: the tree of the file as it
\* was when `files` was parsed, or the error of a file that cannot be read or parsed
parseFile(filename) ==
    IF Base(filename) \in bad
    THEN [file |-> NoFile,
          err |-> [failed |-> TRUE, path |-> filename, in |-> "", with |-> <<>>]]
    ELSE [file |-> files[Join(relpath, Base(filename))], err |-> NoErr]

\* astPut that keeps every parsed tree, as a slice would
astPutDup(m, key, file) == Append(m, [key |-> key, file |-> file])

\* files[key] = file on the map being built: one entry per key, the last one stored
astPut(m, key, file) ==
    IF \E i \in DOMAIN m : m[i].key = key
    THEN [i \in DOMAIN m |-> IF m[i].key = key THEN [key |-> key, file |-> file] ELSE m[i]]
    ELSE Append(m, [key |-> key, file |-> file])

RECURSIVE parseFilesFrom(_, _)
parseFilesFrom(m, localnames) ==
    IF localnames = <<>> THEN [isNil |-> FALSE, files |-> m, err |-> NoErr]
    ELSE LET f == Head(localnames)
             r == parseFile(Join(abspath, f))
         IN IF r.err.failed
            THEN [isNil |-> TRUE, files |-> <<>>, err |-> r.err]
            ELSE parseFilesFrom(astPut(m, Join(relpath, f), r.file), Tail(localnames))

parseFiles(localnames) == parseFilesFrom(<<>>, localnames)

(***************************************************************************)
(* mapIdentifierToBuildTag                                                 *)
(***************************************************************************)
NoRet == [called |-> FALSE, isNil |-> TRUE, map |-> EmptyMap, err |-> NoErr]

\* errReturn that hands back the map built so far together with the error
errReturnPartial(types, err, fileNames) ==
    [called |-> TRUE, isNil |-> FALSE, map |-> types,
     err |-> [failed |-> TRUE, path |-> err.path, in |-> abspath, with |-> fileNames]]

\* return nil, fmt.Errorf("%s in %q with files: %v", err.Error(), abspath, fileNames)
errReturn(types, err, fileNames) ==
    [called |-> TRUE, isNil |-> TRUE, map |-> EmptyMap,
     err |-> [failed |-> TRUE, path |-> err.path, in |-> abspath, with |-> fileNames]]

\* return typesWithTags, nil
okReturn(types) == [called |-> TRUE, isNil |-> FALSE, map |-> types, err |-> NoErr]

\* the classify loop finds no tagged file: the empty map is returned
ClassifyNone ==
    /\ pc = "classify"
    /\ \E order \in PermSeqs(DOMAIN files) :
         /\ DOMAIN groupFiles(EmptyMap, order, files, allowed) = {}
         /\ tagToFiles' = EmptyMap
         /\ typesWithTags' = EmptyMap
         /\ pending' = {}
         /\ ret' = okReturn(EmptyMap)
         /\ pc' = "done"
    /\ UNCHANGED <<files, allowed, bad, first, svars>>

\* the classify loop groups the tagged files by tag
ClassifyTagged ==
    /\ pc = "classify"
    /\ \E order \in PermSeqs(DOMAIN files) :
         LET t2f == groupFiles(EmptyMap, order, files, allowed)
         IN /\ DOMAIN t2f # {}
            /\ tagToFiles' = t2f
            /\ typesWithTags' = EmptyMap
            /\ pending' = DOMAIN t2f
            /\ pc' = "scan"
    /\ UNCHANGED <<files, allowed, bad, ret, first, svars>>

\* one iteration of range tagToFiles whose parseFiles fails
ScanTagFail ==
    /\ pc = "scan"
    /\ \E tagName \in pending :
         LET fileNames == tagToFiles[tagName]
             r == parseFiles(fileNames)
         IN /\ r.err.failed
            /\ ret' = errReturn(typesWithTags, r.err, fileNames)
            /\ pending' = pending \ {tagName}
            /\ pc' = "done"
    /\ UNCHANGED <<files, allowed, bad, tagToFiles, typesWithTags, first, svars>>

\* one iteration of range tagToFiles: re-parse the tag's files and walk their
\* declarations; after the last tag the map is returned
ScanTag ==
    /\ pc = "scan"
    /\ \E tagName \in pending :
         LET fileNames == tagToFiles[tagName]
             r == parseFiles(fileNames)
         IN /\ ~r.err.failed
            /\ \E order \in PermSeqs(DOMAIN r.files) :
                 typesWithTags' = walkFiles(typesWithTags, r.files, order, tagName)
            /\ pending' = pending \ {tagName}
            /\ IF pending' = {}
               THEN ret' = okReturn(typesWithTags') /\ pc' = "done"
               ELSE ret' = ret /\ pc' = "scan"
    /\ UNCHANGED <<files, allowed, bad, tagToFiles, first, svars>>

\* the caller calls mapIdentifierToBuildTag again with the same arguments
SecondCall ==
    /\ pc = "done"
    /\ ~first.called
    /\ first' = ret
    /\ ret' = NoRet
    /\ tagToFiles' = EmptyMap
    /\ typesWithTags' = EmptyMap
    /\ pending' = {}
    /\ pc' = "classify"
    /\ UNCHANGED <<files, allowed, bad, svars>>

Init ==
    /\ \E c \in CommentChoices, d \in [FileNames -> DeclChoices] :
         files = [p \in {Join(relpath, f) : f \in FileNames} |->
                     [Comments |-> c[Base(p)], Decls |-> d[Base(p)]]]
    /\ allowed \in AllowedChoices
    /\ bad \in BadChoices
    /\ pc = "classify"
    /\ tagToFiles = EmptyMap
    /\ pending = {}
    /\ typesWithTags = EmptyMap
    /\ ret = NoRet
    /\ first = NoRet
    /\ src0 = <<>> /\ buf = <<>> /\ off = 0 /\ spc = "done"

Next == ClassifyNone \/ ClassifyTagged \/ ScanTagFail \/ ScanTag

Spec == Init /\ [][Next]_vars

\* the same call made twice
NextTwice == ClassifyNone \/ ClassifyTagged \/ ScanTagFail \/ ScanTag \/ SecondCall

SpecTwice == Init /\ [][NextTwice]_vars

(***************************************************************************)
(* replaceLinePrefixCommentsWithBlankLine                                  *)
(***************************************************************************)
linePrefix == <<"/", "/", "l", "i", "n", "e", " ">>

\* the pieces the input buffers are assembled from
Chunks == {linePrefix, <<"x">>, <<"\n">>, <<"/">>}

Buffers == {Flatten(cs) : cs \in SeqsOf(Chunks, 0, MaxChunks)}

\* bytes.Index: the 0-based index of the first instance of sep in s, or -1
Index(s, sep) ==
    LET hits == {i \in 0..(Len(s) - Len(sep)) : SubSeq(s, i + 1, i + Len(sep)) = sep}
    IN IF hits = {} THEN -1 ELSE CHOOSE i \in hits : \A j \in hits : i <= j

\* the slice src of the current iteration
src == SubSeq(buf, off + 1, Len(buf))

\* i == 0 || src[i-1] == '\n'   (i is 0-based, s is indexed from 1)
atLineStart(s, i) == IF i = 0 THEN TRUE ELSE s[i] = "\n"

\* blankEnd without the test for the newline
blankEndAll(s, i) == Len(s)

\* the value of i after the blanking loop: the first index from i on that is
\* len(src) or holds a newline
blankEnd(s, i) ==
    CHOOSE j \in i..Len(s) :
        /\ j = Len(s) \/ s[j + 1] = "\n"
        /\ \A k \in i..(j - 1) : s[k + 1] # "\n"

\* src[i] = ' ' for every index the blanking loop passes
blankLine(s, i) == [k \in DOMAIN s |-> IF i < k /\ k <= blankEnd(s, i) THEN " " ELSE s[k]]

\* the marker is found at the beginning of a line: blank out the line
SanBlank ==
    /\ spc = "loop"
    /\ LET i == Index(src, linePrefix)
       IN /\ i >= 0
          /\ atLineStart(src, i)
          /\ buf' = SubSeq(buf, 1, off) \o blankLine(src, i)
          /\ off' = off + blankEnd(src, i)
    /\ UNCHANGED <<src0, spc, mvars>>

\* the marker is found elsewhere: skip over the prefix
SanSkip ==
    /\ spc = "loop"
    /\ LET i == Index(src, linePrefix)
       IN /\ i >= 0
          /\ ~atLineStart(src, i)
          /\ off' = off + i + Len(linePrefix)
    /\ UNCHANGED <<src0, buf, spc, mvars>>

\* no marker is left: break
SanBreak ==
    /\ spc = "loop"
    /\ Index(src, linePrefix) < 0
    /\ spc' = "done"
    /\ UNCHANGED <<src0, buf, off, mvars>>

SanInit ==
    /\ src0 \in Buffers
    /\ buf = src0
    /\ off = 0
    /\ spc = "loop"
    /\ files = EmptyMap /\ allowed = <<>> /\ bad = {} /\ pc = "done"
    /\ tagToFiles = EmptyMap /\ pending = {} /\ typesWithTags = EmptyMap
    /\ ret = NoRet /\ first = NoRet

SanNext == SanBlank \/ SanSkip \/ SanBreak

\* the loop is sequential code: it keeps running until it breaks
SanSpec == SanInit /\ [][SanNext]_vars /\ WF_vars(SanNext)

(***************************************************************************)
(* Reading the inputs and the results                                      *)
(***************************************************************************)
\* the keys the declarations of one file stand for, in source order
specKeys(spec) == IF spec.kind \in {"type", "value"} THEN spec.Names ELSE <<>>

declKey(decl) ==
    CASE decl.kind = "func" /\ decl.Recv # NoRecv ->
             <<FormatNode(decl.Recv).text \o "." \o decl.Name>>
      [] decl.kind = "func" /\ decl.Recv = NoRecv -> <<decl.Name>>
      [] OTHER -> Flatten([i \in DOMAIN decl.Specs |-> specKeys(decl.Specs[i])])

DeclKeys(decls) == Flatten([i \in DOMAIN decls |-> declKey(decls[i])])

AllKeys == UNION {Range(DeclKeys(d)) : d \in DeclChoices}

\* the most declarations of one key in one file
MaxRepeat ==
    CHOOSE n \in 0..3 :
        /\ \A d \in DeclChoices, k \in AllKeys : Count(DeclKeys(d), k) <= n
        /\ \E d \in DeclChoices, k \in AllKeys : Count(DeclKeys(d), k) = n

MaxEntryLen == Cardinality(Tags) * Cardinality(FileNames) * MaxRepeat

\* "t1, t2, ..., tn"
RECURSIVE Render(_)
Render(tags) ==
    IF tags = <<>> THEN ""
    ELSE IF Len(tags) = 1 THEN tags[1]
    ELSE Render(SubSeq(tags, 1, Len(tags) - 1)) \o ", " \o tags[Len(tags)]

TagLists == SeqsOf(Tags, 0, MaxEntryLen)

Rendered == {<<Render(s), s>> : s \in TagLists}

\* the tag list each rendered string stands for
Parsed == [str \in {r[1] : r \in Rendered} |-> (CHOOSE r \in Rendered : r[1] = str)[2]]

\* the tags a tag list string names, in order; <<"?">> if it is no list of Tags
TagsIn(str) == IF str \in DOMAIN Parsed THEN Parsed[str] ELSE <<"?">>

Tree(f) == files[Join(relpath, f)]

\* the allowed tags the directives of file f name
FileTags(f) == Range(findBuildTags(Tree(f), allowed).tags)

\* every word that follows +build in a directive of file f
Mentions(f) ==
    UNION {{l[j] : j \in {i \in DOMAIN l : l[i] \notin {"//", "+build", " "}}} :
              l \in {c \in Range(Tree(f).Comments) : Contains(c, "+build")}}

RECURSIVE DeclCountIn(_, _, _)
DeclCountIn(k, T, S) ==
    IF S = {} THEN 0
    ELSE LET f == CHOOSE x \in S : TRUE
         IN (IF T \in FileTags(f) THEN Count(DeclKeys(Tree(f).Decls), k) ELSE 0)
            + DeclCountIn(k, T, S \ {f})

\* the declarations of key k in the files whose directives name the allowed tag T
DeclCount(k, T) == DeclCountIn(k, T, FileNames)

Returned == pc = "done" /\ ~ret.err.failed

(***************************************************************************)
(* Claims                                                                  *)
(***************************************************************************)
\* the fixed order the two tags are expected in
TagOrder == <<"xtag1", "xtag2">>

\* C1: an identifier declared once under each of two allowed tags gets the entry
\* "T1, T2", the two tags once each in one fixed order.
C1_TwoTagsFixedOrder ==
    Returned =>
        \A k \in AllKeys :
            (\A T \in Tags : DeclCount(k, T) = 1) =>
                k \in DOMAIN ret.map /\ ret.map[k] = Render(TagOrder)

\* C2: a second call with the same files, tags and file contents returns the same
\* map as the first, whatever order the maps were iterated in.
C2_SameResultTwice ==
    (pc = "done" /\ first.called) =>
        ret.isNil = first.isNil /\ ret.map = first.map

\* C3: no tag appears twice in the tag string of a key.
C3_TagOncePerKey ==
    Returned => \A k \in DOMAIN ret.map : NoDup(TagsIn(ret.map[k]))

\* C4: a tag outside ctxt.BuildTags is never returned by findBuildTags, never a key
\* of tagToFiles and never in a tag string; a file naming only such tags is in no
\* group and contributes no keys.
C4_DisallowedNeverAppears ==
    /\ \A p \in DOMAIN files : FileTags(Base(p)) \subseteq Range(allowed)
    /\ DOMAIN tagToFiles \subseteq Range(allowed)
    /\ \A k \in DOMAIN typesWithTags : Range(TagsIn(typesWithTags[k])) \subseteq Range(allowed)
    /\ \A k \in DOMAIN ret.map : Range(TagsIn(ret.map[k])) \subseteq Range(allowed)
    /\ \A p \in DOMAIN files :
         Mentions(Base(p)) \cap Range(allowed) = {} =>
            \A T \in DOMAIN tagToFiles : Base(p) \notin Range(tagToFiles[T])
    /\ \A k \in DOMAIN typesWithTags :
         \E p \in DOMAIN files :
            /\ Mentions(Base(p)) \cap Range(allowed) # {}
            /\ k \in Range(DeclKeys(files[p].Decls))

C4_Witness ==
    /\ Returned
    /\ "xtag2" \notin Range(allowed)
    /\ \E f, g \in FileNames :
         /\ Mentions(f) = {"xtag1", "xtag2"}
         /\ Mentions(g) = {"xtag2"}
         /\ DOMAIN ret.map = Range(DeclKeys(Tree(f).Decls))
         /\ Range(DeclKeys(Tree(g).Decls)) \cap DOMAIN ret.map = {}
         /\ \A k \in DOMAIN ret.map : ret.map[k] = "xtag1"

\* C5: a function with a receiver is recorded under "<ReceiverType>.<Name>", one
\* without under "<Name>"; each key carries the tags of the files that declare that
\* form and no others.
C5_MethodKeys ==
    Returned =>
        /\ \A T \in DOMAIN tagToFiles : \A f \in Range(tagToFiles[T]) :
             \A i \in DOMAIN Tree(f).Decls :
                LET decl == Tree(f).Decls[i]
                    key == IF decl.Recv # NoRecv
                           THEN FormatNode(decl.Recv).text \o "." \o decl.Name
                           ELSE decl.Name
                IN decl.kind = "func" =>
                      /\ key \in DOMAIN ret.map
                      /\ T \in Range(TagsIn(ret.map[key]))
        /\ \A k \in DOMAIN ret.map :
             \A T \in Range(TagsIn(ret.map[k])) :
                /\ T \in DOMAIN tagToFiles
                /\ \E f \in Range(tagToFiles[T]) : k \in Range(DeclKeys(Tree(f).Decls))

C5_Witness ==
    /\ Returned
    /\ {"A.String", "String"} \subseteq DOMAIN ret.map
    /\ ret.map["A.String"] = "xtag1"
    /\ ret.map["String"] = "xtag2"

\* the first name of a list that c.fs fails on
FirstBad(localnames) ==
    localnames[CHOOSE i \in DOMAIN localnames :
                  /\ localnames[i] \in bad
                  /\ \A j \in 1..(i - 1) : localnames[j] \notin bad]

\* C6: if a file of any tag's group cannot be read or parsed, the call returns an
\* error and a nil map, whatever was accumulated before; parseFiles returns a nil
\* map and the error of the first failing file.
C6_FailFast ==
    /\ pc = "done" =>
         /\ ret.err.failed <=> \E T \in DOMAIN tagToFiles : Range(tagToFiles[T]) \cap bad # {}
         /\ ret.err.failed => ret.isNil /\ ret.map = EmptyMap
    /\ \A T \in DOMAIN tagToFiles :
         LET r == parseFiles(tagToFiles[T])
         IN IF Range(tagToFiles[T]) \cap bad # {}
            THEN /\ r.isNil /\ r.files = <<>> /\ r.err.failed
                 /\ r.err.path = Join(abspath, FirstBad(tagToFiles[T]))
            ELSE ~r.isNil /\ ~r.err.failed

C6_Witness ==
    /\ pc = "done"
    /\ ret.err.failed
    /\ ret.isNil
    /\ typesWithTags # EmptyMap
    /\ \E T \in DOMAIN tagToFiles :
         /\ Len(tagToFiles[T]) > 1
         /\ tagToFiles[T][1] \notin bad
         /\ Range(tagToFiles[T]) \cap bad # {}

\* file f is listed more than once for tag T, and key k is declared once in f and
\* in no other file listed for T
C9_Case(T, f, k) ==
    /\ T \in DOMAIN tagToFiles
    /\ Count(tagToFiles[T], f) > 1
    /\ Count(DeclKeys(Tree(f).Decls), k) = 1
    /\ \A g \in Range(tagToFiles[T]) \ {f} : k \notin Range(DeclKeys(Tree(g).Decls))

\* C9: when a file names the same allowed tag more than once, an identifier declared
\* once in it still receives that tag exactly once.
C9_RepeatedMentionOnce ==
    Returned =>
        \A T \in Tags, f \in FileNames, k \in AllKeys :
            C9_Case(T, f, k) =>
                k \in DOMAIN ret.map /\ Count(TagsIn(ret.map[k]), T) = 1

C9_Witness ==
    /\ Returned
    /\ \E T \in Tags, f \in FileNames, k \in AllKeys :
         /\ C9_Case(T, f, k)
         /\ ret.map[k] = T

\* C10: after the classify step each tag's file list holds a file name at most
\* once, and findBuildTags returns a tag at most once per file.
C10_GroupsDeduplicated ==
    pc # "classify" =>
        /\ \A T \in DOMAIN tagToFiles : NoDup(tagToFiles[T])
        /\ \A p \in DOMAIN files : NoDup(findBuildTags(files[p], allowed).tags)

\* the first byte of the line that byte k of s lies on
lineStart(s, k) ==
    CHOOSE p \in 1..k :
        /\ IF p = 1 THEN TRUE ELSE s[p - 1] = "\n"
        /\ \A q \in (p + 1)..k : s[q - 1] # "\n"

markerAt(s, p) ==
    /\ p + Len(linePrefix) - 1 <= Len(s)
    /\ SubSeq(s, p, p + Len(linePrefix) - 1) = linePrefix

OnMarkerLine(s, k) == markerAt(s, lineStart(s, k))

\* C7: a byte that does not lie on a line beginning with "//line " is unchanged.
C7_OtherLinesUntouched ==
    spc = "done" =>
        /\ Len(buf) = Len(src0)
        /\ \A k \in DOMAIN src0 : ~OnMarkerLine(src0, k) => buf[k] = src0[k]

C8_Post ==
    spc = "done" =>
        /\ Len(buf) = Len(src0)
        /\ \A k \in DOMAIN src0 :
             /\ src0[k] = "\n" => buf[k] = "\n"
             /\ (OnMarkerLine(src0, k) /\ src0[k] # "\n") => buf[k] = " "

\* C8: the pass terminates and leaves a buffer of the same length in which every
\* line that begins with "//line " is spaces up to its newline, every newline kept.
C8_BlanksMarkerLines == [](C8_Post) /\ <>(spc = "done")

C8_Witness ==
    /\ spc = "done"
    /\ \E p \in 2..Len(src0) :
         /\ src0[p - 1] = "\n"
         /\ markerAt(src0, p)
         /\ \A k \in p..(p + Len(linePrefix) - 1) : buf[k] = " "
         /\ \E k \in (p + Len(linePrefix))..(Len(src0) - 1) :
              /\ src0[k] = "\n" /\ buf[k] = "\n"
              /\ buf[k + 1] = "x"

====
